---- MODULE Spec2Model ----
(***************************************************************************)
(* Model of the wut Runner (github.com/mroth/wut): the control loop of     *)
(* Runner.Run, the delay computation, the guarded attempt, the overall     *)
(* context it observes and the executor it drives.                         *)
(*                                                                         *)
(* Time is a discrete clock `now`.  It advances only when every caller of  *)
(* Run is blocked (in the select of Run, in the select of the executor, or *)
(* returned) and no deadline is due: the semantics of the synctest bubble  *)
(* the repository's tests run in.  Two channels of one select that are     *)
(* ready together are taken in either order, as Go's select does.          *)
(***************************************************************************)
EXTENDS Integers, FiniteSets, Sequences, TLC

(***************************************************************************)
(* Bounds of the model.                                                    *)
(***************************************************************************)
MaxRunsBound == 3      \* MaxRuns is drawn from 0..MaxRunsBound
MaxDelay == 2          \* RetryDelay is drawn from 0..MaxDelay
MaxTimeout == 2        \* ProcessTimeout is drawn from 0..MaxTimeout
MaxSleep == 3          \* the executor's sleep is drawn from 0..MaxSleep
MaxFails == 2          \* the executor's count of failing attempts, 0..MaxFails
MaxDeadline == 5       \* the overall context's timeout, 0..MaxDeadline
MaxTime == 7           \* the clock stops advancing here
MaxAttempts == 5       \* the counters are exact below this value and stay at it

(***************************************************************************)
(* Values.                                                                 *)
(***************************************************************************)
OneCaller == {1}                  \* Run is called once, as the repository does
TwoCallers == {1, 2}              \* Run is called from two goroutines on one Runner
Unlocked == 0                     \* sync.Mutex zero value: no holder
NoDeadline == -1                  \* a context without a deadline
Forever == -1                     \* an executor that fails on every attempt
NotReturned == -1
NoMain == -1                      \* the Runner is used as a library, not by the CLI
NotExited == -1                   \* the CLI process has not exited
ExitUsage == 125                  \* os.Exit(125): no COMMAND given
ExitFailure == 1                  \* os.Exit(1): Run returned an error
ExitSuccess == 0                  \* main returned, or flag.Parse printed the help
ExitFlagError == 2                \* flag.Parse: os.Exit(2) on a flag it cannot parse
ParseOK == "ok"                   \* flag.Parse returned: the flags are set
ParseHelp == "help"               \* flag.Parse met -h or -help
ParseError == "error"             \* flag.Parse met an undeclared flag or a bad value

Nil == "nil"
errMaxRunsCompleted == "wut: maximum number of runs completed"
DeadlineExceeded == "context deadline exceeded"
Canceled == "context canceled"
ExitError == "exit status 1"
TimeoutExceeded == "timeout exceeded"
NoOutcome == <<>>

VARIABLES
    ProcessTimeout,     \* Runner.ProcessTimeout
    RetryDelay,         \* Runner.RetryDelay
    MaxRuns,            \* Runner.MaxRuns
    ContinueOnSuccess,  \* Runner.ContinueOnSuccess
    configured,         \* the caller has assigned the policy fields
    runlock,            \* Runner.runlock: Unlocked or the caller holding it
    runsCompleted,      \* Runner.runsCompleted
    ctxDeadline,        \* baseCtx: its deadline, or NoDeadline
    ctxCancellable,     \* baseCtx: it has a cancel function the owner may call
    ctxDone,            \* baseCtx.Done() is closed
    ctxCause,           \* context.Cause(baseCtx)
    sleep,              \* executor: time an attempt needs to complete
    fails,              \* executor: attempts 1..fails exit non-zero (Forever: all)
    invocations,        \* executor: number of times Run of the executor was entered
    pc,                 \* per caller: position in Run
    timer,              \* per caller: instant the time.After channel is ready
    attemptStart,       \* per caller: instant the executor was entered
    attemptNo,          \* per caller: ordinal of the invocation in flight
    err,                \* per caller: err of the last executeCommand
    ret,                \* per caller: value Run returned
    attemptEnd,         \* per caller: instant the executor last returned
    elapsed,            \* per caller: instant Run returned
    now,                \* the clock
    nargs,              \* CLI: flag.NArg(), or NoMain
    timeout,            \* CLI: the -timeout flag
    exitCode,           \* CLI: the exit code of the process, or NotExited
    flagParse,          \* CLI: what flag.Parse makes of the command line
    prev                \* outcome of an earlier execution with the same inputs

policy == <<ProcessTimeout, RetryDelay, MaxRuns, ContinueOnSuccess, configured>>
context == <<ctxDeadline, ctxCancellable, ctxDone, ctxCause>>
executor == <<sleep, fails>>
locals == <<timer, attemptStart, attemptNo, attemptEnd, err, ret, elapsed>>
harness == <<nargs, timeout, exitCode, flagParse, prev>>
vars == <<policy, context, executor, runlock, runsCompleted, invocations, pc, locals, now,
          harness>>

\* The goroutines that call Run.
Callers == DOMAIN pc

\* n++ on a counter of the model: exact below MaxAttempts, where the counter stays
\* (the value MaxAttempts stands for "MaxAttempts or more").  The code compares its
\* counters only with 0, MaxRuns and the executor's count of failing attempts, all
\* of them below MaxAttempts.
Incr(n) == IF n < MaxAttempts THEN n + 1 ELSE n

\* Variant of NewRunner that presets RetryDelay to the default of the -retry-delay flag.
Init_cliDefaults ==
    /\ ProcessTimeout = 0
    /\ RetryDelay = 1
    /\ MaxRuns = 0
    /\ ContinueOnSuccess = FALSE
    /\ configured = FALSE
    /\ runlock = Unlocked
    /\ runsCompleted = 0
    /\ ctxDeadline \in {NoDeadline} \cup (0..MaxDeadline)
    /\ ctxCancellable \in BOOLEAN
    /\ ctxDone = FALSE
    /\ ctxCause = Nil
    /\ sleep \in 0..MaxSleep
    /\ fails \in {Forever} \cup (0..MaxFails)
    /\ invocations = 0
    /\ pc = [c \in OneCaller |-> "new"]
    /\ timer = [c \in OneCaller |-> 0]
    /\ attemptStart = [c \in OneCaller |-> 0]
    /\ attemptNo = [c \in OneCaller |-> 0]
    /\ attemptEnd = [c \in OneCaller |-> 0]
    /\ err = [c \in OneCaller |-> Nil]
    /\ ret = [c \in OneCaller |-> Nil]
    /\ elapsed = [c \in OneCaller |-> NotReturned]
    /\ now = 0
    /\ nargs = NoMain
    /\ timeout = 0
    /\ exitCode = NotExited
    /\ flagParse = ParseOK
    /\ prev = NoOutcome

(***************************************************************************)
(* NewRunner: the policy fields are Go zero values, the context and the    *)
(* executor are the ones handed to the constructor.                        *)
(***************************************************************************)
Init ==
    /\ ProcessTimeout = 0
    /\ RetryDelay = 0
    /\ MaxRuns = 0
    /\ ContinueOnSuccess = FALSE
    /\ configured = FALSE
    /\ runlock = Unlocked
    /\ runsCompleted = 0
    /\ ctxDeadline \in {NoDeadline} \cup (0..MaxDeadline)
    /\ ctxCancellable \in BOOLEAN
    /\ ctxDone = FALSE
    /\ ctxCause = Nil
    /\ sleep \in 0..MaxSleep
    /\ fails \in {Forever} \cup (0..MaxFails)
    /\ invocations = 0
    /\ pc = [c \in OneCaller |-> "new"]
    /\ timer = [c \in OneCaller |-> 0]
    /\ attemptStart = [c \in OneCaller |-> 0]
    /\ attemptNo = [c \in OneCaller |-> 0]
    /\ attemptEnd = [c \in OneCaller |-> 0]
    /\ err = [c \in OneCaller |-> Nil]
    /\ ret = [c \in OneCaller |-> Nil]
    /\ elapsed = [c \in OneCaller |-> NotReturned]
    /\ now = 0
    /\ nargs = NoMain
    /\ timeout = 0
    /\ exitCode = NotExited
    /\ flagParse = ParseOK
    /\ prev = NoOutcome

(***************************************************************************)
(* The caller assigns the exported policy fields before calling Run.       *)
(***************************************************************************)
SetPolicy ==
    /\ ~configured
    /\ \A c \in Callers : pc[c] = "new"
    /\ ProcessTimeout' \in 0..MaxTimeout
    /\ RetryDelay' \in 0..MaxDelay
    /\ MaxRuns' \in 0..MaxRunsBound
    /\ ContinueOnSuccess' \in BOOLEAN
    /\ configured' = TRUE
    /\ UNCHANGED <<context, executor, harness, runlock, runsCompleted, invocations, pc, locals, now>>

(***************************************************************************)
(* The overall context.                                                    *)
(***************************************************************************)
\* The cause recorded when the deadline passes: DeadlineExceeded for
\* context.WithTimeout, the cause main hands to context.WithTimeoutCause.
deadlineCause == IF nargs = NoMain THEN DeadlineExceeded ELSE TimeoutExceeded

\* context.WithTimeout: the deadline passes.
DeadlineDue == ~ctxDone /\ ctxDeadline # NoDeadline /\ now >= ctxDeadline

ContextDeadline ==
    /\ DeadlineDue
    /\ ctxDone' = TRUE
    /\ ctxCause' = deadlineCause
    /\ UNCHANGED <<policy, ctxDeadline, ctxCancellable, executor, harness, runlock, runsCompleted,
                   invocations, pc, locals, now>>

\* The owner of the context calls its cancel function.
ContextCancel ==
    /\ ctxCancellable
    /\ ~ctxDone
    /\ ctxDone' = TRUE
    /\ ctxCause' = Canceled
    /\ UNCHANGED <<policy, ctxDeadline, ctxCancellable, executor, harness, runlock, runsCompleted,
                   invocations, pc, locals, now>>

\* ctx.Err() of the base context: DeadlineExceeded or Canceled, whatever the cause.
ctxErr == IF ctxCause = TimeoutExceeded THEN DeadlineExceeded ELSE ctxCause

(***************************************************************************)
(* Runner.Run                                                              *)
(***************************************************************************)
\* The call of Run: enters the for loop.  A context constructed with a deadline that
\* has already passed is done from its construction, before Run is called.
Run(c) ==
    /\ pc[c] = "new"
    /\ ~DeadlineDue
    /\ nargs # NoMain => (configured /\ exitCode = NotExited)
    /\ pc' = [pc EXCEPT ![c] = "delay"]
    /\ UNCHANGED <<policy, context, executor, harness, runlock, runsCompleted, invocations, locals, now>>

\* Variants of nextExecDelay with a slip: a delay before the first run too; no
\* delay once MaxRuns runs are completed.
nextExecDelay_always == RetryDelay

nextExecDelay_skipLast ==
    IF runsCompleted = 0 \/ (MaxRuns > 0 /\ runsCompleted >= MaxRuns) THEN 0 ELSE RetryDelay

\* nextExecDelay: 0 before the first completed run, RetryDelay afterwards.
nextExecDelay == IF runsCompleted = 0 THEN 0 ELSE RetryDelay

\* time.After(r.nextExecDelay()): the lock is taken and released around the read.
NextExecDelay(c) ==
    /\ pc[c] = "delay"
    /\ runlock = Unlocked
    /\ timer' = [timer EXCEPT ![c] = now + nextExecDelay]
    /\ pc' = [pc EXCEPT ![c] = "select"]
    /\ UNCHANGED <<policy, context, executor, harness, runlock, runsCompleted, invocations,
                   attemptStart, attemptNo, attemptEnd, err, ret, elapsed, now>>

TimerReady(c) == now >= timer[c]

\* Variant of the Done case that goes on with the loop instead of returning.
SelectDone_continue(c) ==
    /\ pc[c] = "select"
    /\ ctxDone
    /\ pc' = [pc EXCEPT ![c] = "delay"]
    /\ UNCHANGED <<policy, context, executor, harness, runlock, runsCompleted, invocations,
                   locals, now>>

\* case <-r.baseCtx.Done(): return context.Cause(r.baseCtx)
SelectDone(c) ==
    /\ pc[c] = "select"
    /\ ctxDone
    /\ ret' = [ret EXCEPT ![c] = ctxCause]
    /\ elapsed' = [elapsed EXCEPT ![c] = now]
    /\ pc' = [pc EXCEPT ![c] = "done"]
    /\ UNCHANGED <<policy, context, executor, harness, runlock, runsCompleted, invocations,
                   timer, attemptStart, attemptNo, attemptEnd, err, now>>

\* Variant of Run without the MaxRuns check.
maxRunsReached_never == FALSE

\* Variant of the MaxRuns check that applies the cap also when MaxRuns is 0.
maxRunsReached_zeroCap == runsCompleted >= MaxRuns

\* Variant of the MaxRuns check with > for >=.
maxRunsReached_strict == MaxRuns > 0 /\ runsCompleted > MaxRuns

\* r.MaxRuns > 0 && r.runsCompleted >= r.MaxRuns
maxRunsReached == MaxRuns > 0 /\ runsCompleted >= MaxRuns

\* case <-time.After(...): the MaxRuns check; return errMaxRunsCompleted or go on
\* to executeCommand.
SelectTimer(c) ==
    /\ pc[c] = "select"
    /\ TimerReady(c)
    /\ IF maxRunsReached
       THEN /\ ret' = [ret EXCEPT ![c] = errMaxRunsCompleted]
            /\ elapsed' = [elapsed EXCEPT ![c] = now]
            /\ pc' = [pc EXCEPT ![c] = "done"]
       ELSE /\ pc' = [pc EXCEPT ![c] = "execute"]
            /\ UNCHANGED <<ret, elapsed>>
    /\ UNCHANGED <<policy, context, executor, harness, runlock, runsCompleted, invocations,
                   timer, attemptStart, attemptNo, attemptEnd, err, now>>

(***************************************************************************)
(* Runner.executeCommand and the executor                                  *)
(***************************************************************************)
\* Variant of executeCommand that enters the executor without waiting for the lock.
ExecuteCommand_nolock(c) ==
    /\ pc[c] = "execute"
    /\ runlock' = c
    /\ invocations' = Incr(invocations)
    /\ attemptNo' = [attemptNo EXCEPT ![c] = Incr(invocations)]
    /\ attemptStart' = [attemptStart EXCEPT ![c] = now]
    /\ pc' = [pc EXCEPT ![c] = "running"]
    /\ UNCHANGED <<policy, context, executor, harness, runsCompleted, timer, attemptEnd, err, ret,
                   elapsed, now>>

\* executeCommand up to the call of the executor: take the lock, derive the
\* attempt's context, enter executor.Run.
ExecuteCommand(c) ==
    /\ pc[c] = "execute"
    /\ runlock = Unlocked
    /\ runlock' = c
    /\ invocations' = Incr(invocations)
    /\ attemptNo' = [attemptNo EXCEPT ![c] = Incr(invocations)]
    /\ attemptStart' = [attemptStart EXCEPT ![c] = now]
    /\ pc' = [pc EXCEPT ![c] = "running"]
    /\ UNCHANGED <<policy, context, executor, harness, runsCompleted, timer, attemptEnd, err, ret,
                   elapsed, now>>

\* Variant of the per-attempt timeout that fires one instant late.
processTimeoutDue_late(c) == ProcessTimeout > 0 /\ now > attemptStart[c] + ProcessTimeout

\* The per-attempt timeout of context.WithTimeout(r.baseCtx, r.ProcessTimeout) is due.
processTimeoutDue(c) == ProcessTimeout > 0 /\ now >= attemptStart[c] + ProcessTimeout

\* Variant of the attempt's context that is not derived from the base context.
attemptCtxDone_timeoutOnly(c) == processTimeoutDue(c)

\* ctx.Done() of the attempt's context is closed.
attemptCtxDone(c) == ctxDone \/ processTimeoutDue(c)

\* ctx.Err() of the attempt's context: the values it can hold once it is done.
attemptCtxErrs(c) ==
    (IF ctxDone THEN {ctxErr} ELSE {}) \cup (IF processTimeoutDue(c) THEN {DeadlineExceeded} ELSE {})

\* The executor's time.After(me.sleep) is ready.
sleepDone(c) == now >= attemptStart[c] + sleep

\* The exit of the n-th invocation: non-zero for the failing ones.
exitError(n) == IF fails = Forever \/ n <= fails THEN ExitError ELSE Nil

\* Variants of the success test: ContinueOnSuccess ignored; the error test inverted.
stopOnSuccess_always(e) == e = Nil

stopOnSuccess_onFailure(e) == e # Nil /\ ~ContinueOnSuccess

\* err == nil && !r.ContinueOnSuccess
stopOnSuccess(e) == e = Nil /\ ~ContinueOnSuccess

\* Variant of the return path in which Run hands a failed attempt's error to its
\* caller instead of retrying.
Returned_propagate(c, e) ==
    /\ runsCompleted' = Incr(runsCompleted)
    /\ runlock' = Unlocked
    /\ err' = [err EXCEPT ![c] = e]
    /\ attemptEnd' = [attemptEnd EXCEPT ![c] = now]
    /\ IF e = Nil => ~ContinueOnSuccess
       THEN /\ ret' = [ret EXCEPT ![c] = e]
            /\ elapsed' = [elapsed EXCEPT ![c] = now]
            /\ pc' = [pc EXCEPT ![c] = "done"]
       ELSE /\ pc' = [pc EXCEPT ![c] = "delay"]
            /\ UNCHANGED <<ret, elapsed>>
    /\ UNCHANGED <<policy, context, executor, harness, invocations, timer, attemptStart, attemptNo, now>>

\* Variant of the return path that does not count an attempt that was canceled.
Returned_uncounted(c, e) ==
    /\ runsCompleted' = IF e \in {Nil, ExitError} THEN Incr(runsCompleted) ELSE runsCompleted
    /\ runlock' = Unlocked
    /\ err' = [err EXCEPT ![c] = e]
    /\ attemptEnd' = [attemptEnd EXCEPT ![c] = now]
    /\ IF e = Nil /\ ~ContinueOnSuccess
       THEN /\ ret' = [ret EXCEPT ![c] = Nil]
            /\ elapsed' = [elapsed EXCEPT ![c] = now]
            /\ pc' = [pc EXCEPT ![c] = "done"]
       ELSE /\ pc' = [pc EXCEPT ![c] = "delay"]
            /\ UNCHANGED <<ret, elapsed>>
    /\ UNCHANGED <<policy, context, executor, harness, invocations, timer, attemptStart, attemptNo, now>>

\* The executor has returned e: the deferred increment and unlock, then the rest of
\* the loop body in Run.
Returned(c, e) ==
    /\ runsCompleted' = Incr(runsCompleted)
    /\ runlock' = Unlocked
    /\ err' = [err EXCEPT ![c] = e]
    /\ attemptEnd' = [attemptEnd EXCEPT ![c] = now]
    /\ IF stopOnSuccess(e)
       THEN /\ ret' = [ret EXCEPT ![c] = Nil]
            /\ elapsed' = [elapsed EXCEPT ![c] = now]
            /\ pc' = [pc EXCEPT ![c] = "done"]
       ELSE /\ pc' = [pc EXCEPT ![c] = "delay"]
            /\ UNCHANGED <<ret, elapsed>>
    /\ UNCHANGED <<policy, context, executor, harness, invocations, timer, attemptStart, attemptNo, now>>

\* executor.Run, case <-ctx.Done(): return ctx.Err()
ExecutorCanceled(c) ==
    /\ pc[c] = "running"
    /\ attemptCtxDone(c)
    /\ \E e \in attemptCtxErrs(c) : Returned(c, e)

\* executor.Run, case <-time.After(me.sleep): the command exits.
ExecutorExited(c) ==
    /\ pc[c] = "running"
    /\ sleepDone(c)
    /\ Returned(c, exitError(attemptNo[c]))

(***************************************************************************)
(* The clock                                                               *)
(***************************************************************************)
\* Caller c is durably blocked: nothing it waits for is ready at this instant.
Blocked(c) ==
    \/ pc[c] = "done"
    \/ pc[c] = "select" /\ ~ctxDone /\ ~TimerReady(c)
    \/ pc[c] = "running" /\ ~attemptCtxDone(c) /\ ~sleepDone(c)
    \/ pc[c] \in {"delay", "execute"} /\ runlock # Unlocked

Tick ==
    /\ now < MaxTime
    /\ ~DeadlineDue
    /\ \A c \in Callers : Blocked(c)
    /\ \E c \in Callers : pc[c] # "done"
    /\ now' = now + 1
    /\ UNCHANGED <<policy, context, executor, harness, runlock, runsCompleted, invocations, pc, locals>>

Next ==
    \/ SetPolicy
    \/ ContextDeadline
    \/ ContextCancel
    \/ Tick
    \/ \E c \in Callers :
        \/ Run(c)
        \/ NextExecDelay(c)
        \/ SelectDone(c)
        \/ SelectTimer(c)
        \/ ExecuteCommand(c)
        \/ ExecutorCanceled(c)
        \/ ExecutorExited(c)

Spec == Init /\ [][Next]_vars

TypeOK ==
    /\ ProcessTimeout \in 0..MaxTimeout
    /\ RetryDelay \in 0..MaxDelay
    /\ MaxRuns \in 0..MaxRunsBound
    /\ ContinueOnSuccess \in BOOLEAN
    /\ runlock \in {Unlocked} \cup Callers
    /\ runsCompleted \in 0..MaxAttempts
    /\ invocations \in 0..MaxAttempts
    /\ now \in 0..MaxTime
    /\ \A c \in Callers : pc[c] \in {"new", "delay", "select", "execute", "running", "done"}
    /\ nargs \in {NoMain, 0, 1}
    /\ exitCode \in {NotExited, ExitSuccess, ExitFailure, ExitFlagError, ExitUsage}
    /\ flagParse \in {ParseOK, ParseHelp, ParseError}

(***************************************************************************)
(* Scenarios the properties are stated for.                                *)
(***************************************************************************)
NeverDone == ctxDeadline = NoDeadline /\ ~ctxCancellable
AlwaysFails == fails = Forever
ZeroTime == sleep = 0
Done(c) == pc[c] = "done"
Ceil(a, b) == (a + b - 1) \div b

\* C1: with MaxRuns = N > 0, an executor that fails on every attempt and a context
\* that is never done, Run returns errMaxRunsCompleted and runsCompleted = N then.
C1_ExhaustedAfterMaxRuns ==
    \A c \in Callers :
        (Done(c) /\ MaxRuns > 0 /\ AlwaysFails /\ NeverDone)
            => (ret[c] = errMaxRunsCompleted /\ runsCompleted = MaxRuns)

C1_Witness ==
    \E c \in Callers :
        /\ Done(c) /\ MaxRuns = 3 /\ AlwaysFails /\ NeverDone
        /\ ret[c] = errMaxRunsCompleted /\ runsCompleted = 3 /\ invocations = 3

\* The executor succeeds on attempt fails + 1: it exits before any per-attempt
\* timeout can cancel it.
SucceedsOnAttempt(k) ==
    /\ fails = k - 1
    /\ ProcessTimeout = 0 \/ sleep < ProcessTimeout

\* C2: with ContinueOnSuccess false, MaxRuns = 0 or MaxRuns >= k, a context that is
\* never done and an executor that fails on attempts 1..k-1 and succeeds on attempt
\* k, Run returns nil with runsCompleted = k, and attempt k+1 is never started.
C2_SuccessOnAttemptK ==
    \A k \in 1..(MaxFails + 1) :
        (SucceedsOnAttempt(k) /\ ~ContinueOnSuccess /\ NeverDone
         /\ (MaxRuns = 0 \/ MaxRuns >= k))
            => /\ invocations <= k
               /\ \A c \in Callers :
                    Done(c) => (ret[c] = Nil /\ runsCompleted = k /\ invocations = k)

C2_Witness ==
    \E c \in Callers :
        /\ Done(c) /\ SucceedsOnAttempt(3) /\ ~ContinueOnSuccess /\ NeverDone
        /\ MaxRuns = 3 /\ RetryDelay > 0 /\ sleep > 0
        /\ ret[c] = Nil /\ runsCompleted = 3

\* C3: once the overall context's done-signal is available at the select of Run,
\* Run returns the context's cause and starts no further attempt: no executor
\* invocation follows a select at which the context was done.
C3_NoAttemptOnceContextDone ==
    [][\A c \in Callers :
        (pc[c] = "select" /\ ctxDone /\ pc'[c] # "select")
            => (pc'[c] = "done" /\ ret'[c] = ctxCause)]_vars

\* C4: with an overall timeout T, RetryDelay = d, 0 < d < T, d not dividing T, no
\* per-attempt timeout, MaxRuns = 0 and an executor that always fails in zero time,
\* Run returns the deadline-exceeded cause at elapsed time T after ceil(T/d) runs.
C4_Scenario ==
    /\ ctxDeadline # NoDeadline /\ ~ctxCancellable
    /\ 0 < RetryDelay /\ RetryDelay < ctxDeadline /\ ctxDeadline % RetryDelay # 0
    /\ ProcessTimeout = 0 /\ MaxRuns = 0 /\ AlwaysFails /\ ZeroTime

C4_DeadlineExceededAtT ==
    \A c \in Callers :
        (Done(c) /\ C4_Scenario)
            => /\ ret[c] = DeadlineExceeded
               /\ elapsed[c] = ctxDeadline
               /\ runsCompleted = Ceil(ctxDeadline, RetryDelay)

C4_Witness ==
    \E c \in Callers :
        /\ Done(c) /\ C4_Scenario /\ ctxDeadline = 5 /\ RetryDelay = 2
        /\ ret[c] = DeadlineExceeded /\ elapsed[c] = 5 /\ runsCompleted = 3

\* C5: Run returns nil, errMaxRunsCompleted or the cause of the overall context,
\* which are distinct; the error of an attempt is never what Run returns, and
\* errMaxRunsCompleted is never the context's cause.
C5_ThreeTerminalOutcomes ==
    \A c \in Callers :
        Done(c) =>
            /\ \/ ret[c] = Nil
               \/ ret[c] = errMaxRunsCompleted
               \/ ctxDone /\ ret[c] = ctxCause
            /\ ret[c] # ExitError
            /\ ctxCause # errMaxRunsCompleted
            /\ ctxDone => ctxCause # Nil
            /\ ret[c] = Nil => err[c] = Nil

C5_Witness ==
    \E c \in Callers :
        /\ Done(c) /\ ~ctxDone /\ ProcessTimeout > 0
        /\ err[c] = DeadlineExceeded /\ ret[c] = errMaxRunsCompleted

\* The scenario of C6 and C7: MaxRuns = N > 0, an executor that always fails in zero
\* time, a context that is never done.
FailFastScenario == MaxRuns > 0 /\ AlwaysFails /\ ZeroTime /\ NeverDone

\* C6 as stated: Run returns after N-1 retry delays, at elapsed time (N-1)*d.
C6_ElapsedNMinusOneDelays ==
    \A c \in Callers :
        (Done(c) /\ FailFastScenario) => elapsed[c] = (MaxRuns - 1) * RetryDelay

\* C6, amended: with MaxRuns = N > 0, RetryDelay = d, an executor that always fails
\* in zero time and a context that is never done, Run returns errMaxRunsCompleted
\* after N retry delays, at elapsed time N*d.
C6_ElapsedNDelays ==
    \A c \in Callers :
        (Done(c) /\ FailFastScenario)
            => (ret[c] = errMaxRunsCompleted /\ elapsed[c] = MaxRuns * RetryDelay)

C6_Witness ==
    \E c \in Callers :
        /\ Done(c) /\ FailFastScenario /\ MaxRuns = 3 /\ RetryDelay = 1
        /\ ret[c] = errMaxRunsCompleted /\ elapsed[c] = 3

\* C7: in the same scenario Run returns at elapsed time N*d because the MaxRuns
\* check comes only one more RetryDelay after the N-th attempt: the N-th attempt
\* starts at (N-1)*d and Run returns d later.
C7_CheckAfterFurtherDelay ==
    \A c \in Callers :
        (Done(c) /\ FailFastScenario)
            => /\ attemptNo[c] = MaxRuns
               /\ attemptStart[c] = (MaxRuns - 1) * RetryDelay
               /\ elapsed[c] = attemptStart[c] + RetryDelay
               /\ now = MaxRuns * RetryDelay

C7_Witness ==
    \E c \in Callers :
        /\ Done(c) /\ FailFastScenario /\ MaxRuns = 3 /\ RetryDelay = 2
        /\ attemptStart[c] = 4 /\ elapsed[c] = 6

\* C8: with ProcessTimeout = p > 0, RetryDelay = 0, MaxRuns = N > 0, a context that
\* is never done and an executor that needs longer than p, every attempt is canceled
\* p after its start and counts as failed, and Run returns errMaxRunsCompleted with
\* runsCompleted = N at elapsed time N*p.
C8_Scenario ==
    /\ ProcessTimeout > 0 /\ RetryDelay = 0 /\ MaxRuns > 0 /\ NeverDone
    /\ sleep > ProcessTimeout

C8_ProcessTimeoutRuns ==
    \A c \in Callers :
        C8_Scenario =>
            /\ pc[c] = "running" => now <= attemptStart[c] + ProcessTimeout
            /\ (pc[c] # "running" /\ runsCompleted > 0)
                => /\ err[c] = DeadlineExceeded
                   /\ now = attemptStart[c] + ProcessTimeout
                   /\ now = runsCompleted * ProcessTimeout
            /\ Done(c) => /\ ret[c] = errMaxRunsCompleted
                          /\ runsCompleted = MaxRuns
                          /\ elapsed[c] = MaxRuns * ProcessTimeout

C8_Witness ==
    \E c \in Callers :
        /\ Done(c) /\ C8_Scenario /\ MaxRuns = 3 /\ ProcessTimeout = 2 /\ sleep = 3
        /\ ret[c] = errMaxRunsCompleted /\ runsCompleted = 3 /\ elapsed[c] = 6

\* C9: with ContinueOnSuccess true Run never returns nil: it returns
\* errMaxRunsCompleted, and only if MaxRuns > 0, or the cause of the overall context;
\* with MaxRuns = 0 and a context that is never done it does not return.
C9_ContinueOnSuccessNeverSucceeds ==
    \A c \in Callers :
        (Done(c) /\ ContinueOnSuccess)
            => /\ ret[c] # Nil
               /\ \/ ret[c] = errMaxRunsCompleted /\ MaxRuns > 0
                  \/ ctxDone /\ ret[c] = ctxCause
               /\ ~(MaxRuns = 0 /\ NeverDone)

C9_Witness ==
    \E c \in Callers :
        /\ ContinueOnSuccess /\ fails = 0 /\ MaxRuns = 0 /\ NeverDone
        /\ pc[c] = "select" /\ runsCompleted = 3 /\ err[c] = Nil

\* C10: with MaxRuns = N > 0 an attempt is started only while runsCompleted < N, so
\* runsCompleted <= N and the executor is invoked at most N times; a timer that
\* fires with runsCompleted >= N ends Run with errMaxRunsCompleted.  With
\* MaxRuns = 0 no count of runs ends Run with errMaxRunsCompleted.
C10_MaxRunsBoundsAttempts ==
    /\ [](\A c \in Callers :
            /\ MaxRuns > 0
                => /\ runsCompleted <= MaxRuns
                   /\ invocations <= MaxRuns
                   /\ pc[c] \in {"execute", "running"} => runsCompleted < MaxRuns
            /\ (Done(c) /\ ret[c] = errMaxRunsCompleted)
                => (MaxRuns > 0 /\ runsCompleted >= MaxRuns))
    /\ [][\A c \in Callers :
            (pc[c] = "select" /\ pc'[c] # "select" /\ ~ctxDone)
                => IF MaxRuns > 0 /\ runsCompleted >= MaxRuns
                   THEN pc'[c] = "done" /\ ret'[c] = errMaxRunsCompleted
                   ELSE pc'[c] = "execute"]_vars

C10_Witness ==
    \E c \in Callers :
        /\ Done(c) /\ MaxRuns = 2 /\ fails = 0 /\ ContinueOnSuccess
        /\ ret[c] = errMaxRunsCompleted /\ invocations = 2

C10_WitnessUnlimited ==
    \E c \in Callers : MaxRuns = 0 /\ configured /\ runsCompleted > MaxRunsBound

\* The attempts in flight: the callers inside executor.Run.
InFlight == {c \in Callers : pc[c] = "running"}

\* C11: runsCompleted starts at 0, never decreases, and changes only by +1, exactly
\* when an executor call returns (exited, or canceled by the overall context or the
\* per-attempt timeout), never while the attempt is pending and before the next
\* delay is computed; so it equals the number of executor invocations that have
\* returned, and at termination the number of invocations made.
C11_RunsCompletedCountsReturns ==
    /\ [](/\ (\A c \in Callers : pc[c] = "new") => runsCompleted = 0
          /\ invocations < MaxAttempts
                => /\ runsCompleted = invocations - Cardinality(InFlight)
                   /\ (\A c \in Callers : Done(c)) => runsCompleted = invocations)
    /\ [][/\ runsCompleted' >= runsCompleted
          /\ \A c \in Callers :
                /\ (pc[c] = "running" /\ pc'[c] # "running" /\ runsCompleted < MaxAttempts)
                      => (runsCompleted' = runsCompleted + 1 /\ pc'[c] \in {"delay", "done"})
                /\ (pc[c] = "running" /\ pc'[c] = "running") => runsCompleted' = runsCompleted
                /\ pc[c] = "delay" => runsCompleted' = runsCompleted
          /\ runsCompleted' # runsCompleted
                => /\ runsCompleted' = runsCompleted + 1
                   /\ \E c \in Callers : pc[c] = "running" /\ pc'[c] # "running"]_vars

C11_Witness ==
    \E c \in Callers :
        /\ Done(c) /\ ret[c] = Canceled /\ err[c] = Canceled
        /\ runsCompleted = 2 /\ invocations = 2

(***************************************************************************)
(* Two goroutines call Run on one Runner.  The contexts and executors are   *)
(* a selection of those of Init: without and with a deadline, with and     *)
(* without a cancel function, instant and slow, failing and succeeding.    *)
(***************************************************************************)
InitConcurrent ==
    /\ ProcessTimeout = 0
    /\ RetryDelay = 0
    /\ MaxRuns = 0
    /\ ContinueOnSuccess = FALSE
    /\ configured = FALSE
    /\ runlock = Unlocked
    /\ runsCompleted = 0
    /\ ctxDeadline \in {NoDeadline, 2}
    /\ ctxCancellable \in BOOLEAN
    /\ ctxDone = FALSE
    /\ ctxCause = Nil
    /\ sleep \in 0..1
    /\ fails \in {Forever, 0, 1}
    /\ invocations = 0
    /\ pc = [c \in TwoCallers |-> "new"]
    /\ timer = [c \in TwoCallers |-> 0]
    /\ attemptStart = [c \in TwoCallers |-> 0]
    /\ attemptNo = [c \in TwoCallers |-> 0]
    /\ attemptEnd = [c \in TwoCallers |-> 0]
    /\ err = [c \in TwoCallers |-> Nil]
    /\ ret = [c \in TwoCallers |-> Nil]
    /\ elapsed = [c \in TwoCallers |-> NotReturned]
    /\ now = 0
    /\ nargs = NoMain
    /\ timeout = 0
    /\ exitCode = NotExited
    /\ flagParse = ParseOK
    /\ prev = NoOutcome

SpecConcurrent == InitConcurrent /\ [][Next]_vars

\* C12: at most one attempt is in flight for a Runner, also with two concurrent
\* callers of Run: the executor call and the increment of runsCompleted are one
\* critical section under runlock, and no delay computation reads runsCompleted
\* while an attempt is in flight.
C12_OneAttemptInFlight ==
    /\ [](/\ Cardinality(InFlight) <= 1
          /\ \A c \in Callers : pc[c] = "running" <=> runlock = c)
    /\ [][/\ \A c \in Callers :
                (pc[c] = "delay" /\ pc'[c] = "select") => (InFlight = {} /\ runlock = Unlocked)
          /\ runsCompleted' # runsCompleted
                => /\ runlock \in InFlight
                   /\ pc'[runlock] # "running"
                   /\ runlock' = Unlocked]_vars

C12_Witness ==
    \E c, d \in Callers :
        /\ c # d /\ pc[c] = "running" /\ runlock = c /\ now > attemptStart[c]
        /\ pc[d] = "execute"

\* C13: the first attempt starts with no delay after the call of Run (instant 0);
\* every later attempt starts exactly RetryDelay after the previous attempt
\* returned (the delay waited is 0 while runsCompleted = 0 and RetryDelay
\* afterwards); so with an executor that always fails and MaxRuns = N, Run ends
\* with errMaxRunsCompleted no earlier than (N-1)*RetryDelay.
C13_DelayBetweenAttempts ==
    /\ [](\A c \in Callers :
            (Done(c) /\ AlwaysFails /\ MaxRuns > 0 /\ ret[c] = errMaxRunsCompleted)
                => elapsed[c] >= (MaxRuns - 1) * RetryDelay)
    /\ [][\A c \in Callers :
            /\ (pc[c] = "delay" /\ pc'[c] = "select")
                  => timer'[c] = now + (IF runsCompleted = 0 THEN 0 ELSE RetryDelay)
            /\ (pc[c] # "running" /\ pc'[c] = "running")
                  => now = (IF runsCompleted = 0 THEN 0 ELSE attemptEnd[c] + RetryDelay)]_vars

C13_Witness ==
    \E c \in Callers :
        /\ pc[c] = "running" /\ runsCompleted = 2 /\ RetryDelay = 2 /\ sleep = 1
        /\ attemptEnd[c] = 4 /\ attemptStart[c] = 6

(***************************************************************************)
(* Scheduling: a goroutine that can take a step eventually takes one, a    *)
(* deadline that is due fires, and the clock advances when all are blocked:*)
(* weak fairness of these steps.  A select with several ready cases takes  *)
(* one of them at random, so a case that is ready at infinitely many       *)
(* executions of the select is eventually taken: strong fairness of the    *)
(* cases of the select in Run and of the select in the executor.           *)
(***************************************************************************)
Fairness ==
    /\ WF_vars(Tick)
    /\ WF_vars(ContextDeadline)
    /\ \A c \in OneCaller :
        /\ WF_vars(Run(c))
        /\ WF_vars(NextExecDelay(c))
        /\ SF_vars(SelectDone(c))
        /\ SF_vars(SelectTimer(c))
        /\ WF_vars(ExecuteCommand(c))
        /\ SF_vars(ExecutorCanceled(c))
        /\ SF_vars(ExecutorExited(c))

(***************************************************************************)
(* The part of Fairness that holds of any scheduler, whatever case a       *)
(* select with several ready cases takes: weak fairness of every step.     *)
(* Fairness implies it, so a property that holds under it holds of the     *)
(* program.                                                                *)
(***************************************************************************)
WeakFairness ==
    /\ WF_vars(Tick)
    /\ WF_vars(ContextDeadline)
    /\ \A c \in OneCaller :
        /\ WF_vars(Run(c))
        /\ WF_vars(NextExecDelay(c))
        /\ WF_vars(SelectDone(c))
        /\ WF_vars(SelectTimer(c))
        /\ WF_vars(ExecuteCommand(c))
        /\ WF_vars(ExecutorCanceled(c))
        /\ WF_vars(ExecutorExited(c))

SpecWeaklyFair == Init /\ [][Next]_vars /\ WeakFairness

\* The contexts and executors of the fair executions, a selection of those of Init:
\* a context without a deadline, done before Run is called, or done in the course
\* of the run, with and without a cancel function; a command that exits at once or
\* takes time, and fails always, never or once.
InitFair ==
    /\ ProcessTimeout = 0
    /\ RetryDelay = 0
    /\ MaxRuns = 0
    /\ ContinueOnSuccess = FALSE
    /\ configured = FALSE
    /\ runlock = Unlocked
    /\ runsCompleted = 0
    /\ ctxDeadline \in {NoDeadline, 0, 3}
    /\ ctxCancellable \in BOOLEAN
    /\ ctxDone = FALSE
    /\ ctxCause = Nil
    /\ sleep \in {0, 2}
    /\ fails \in {Forever, 0, 1}
    /\ invocations = 0
    /\ pc = [c \in OneCaller |-> "new"]
    /\ timer = [c \in OneCaller |-> 0]
    /\ attemptStart = [c \in OneCaller |-> 0]
    /\ attemptNo = [c \in OneCaller |-> 0]
    /\ attemptEnd = [c \in OneCaller |-> 0]
    /\ err = [c \in OneCaller |-> Nil]
    /\ ret = [c \in OneCaller |-> Nil]
    /\ elapsed = [c \in OneCaller |-> NotReturned]
    /\ now = 0
    /\ nargs = NoMain
    /\ timeout = 0
    /\ exitCode = NotExited
    /\ flagParse = ParseOK
    /\ prev = NoOutcome

SpecFair == InitFair /\ [][Next]_vars /\ Fairness

\* C14: for every configuration (RetryDelay 0 and MaxRuns 0 included), once the
\* overall context is done, before Run, during a wait or during an attempt, Run
\* eventually returns under the fairness of the loop's steps.
C14_CancellationHonoured == ctxDone ~> (\A c \in Callers : Done(c))

C14_Witness ==
    \E c \in Callers :
        /\ Done(c) /\ ret[c] = Canceled /\ err[c] = Canceled
        /\ configured /\ RetryDelay = 0 /\ MaxRuns = 0 /\ ContinueOnSuccess
        /\ sleep = 2 /\ runsCompleted = 2 /\ elapsed[c] = 3 /\ ctxDeadline = NoDeadline

(***************************************************************************)
(* A second execution on the same inputs: once Run has returned, a new     *)
(* Runner is constructed with NewRunner on the same executor and a context *)
(* with the same deadline, is given the same policy, and is run from       *)
(* instant 0 again.  The outcome of the first execution is kept in prev.   *)
(* Only contexts that are done by their deadline are rerun, so that the    *)
(* instant the context becomes done is the same in both executions.        *)
(***************************************************************************)
Restart ==
    /\ prev = NoOutcome
    /\ nargs = NoMain
    /\ configured
    /\ ~ctxCancellable
    /\ \A c \in Callers : pc[c] = "done"
    /\ prev' = <<ret, runsCompleted>>
    /\ runlock' = Unlocked
    /\ runsCompleted' = 0
    /\ invocations' = 0
    /\ ctxDone' = FALSE
    /\ ctxCause' = Nil
    /\ pc' = [c \in Callers |-> "new"]
    /\ timer' = [c \in Callers |-> 0]
    /\ attemptStart' = [c \in Callers |-> 0]
    /\ attemptNo' = [c \in Callers |-> 0]
    /\ attemptEnd' = [c \in Callers |-> 0]
    /\ err' = [c \in Callers |-> Nil]
    /\ ret' = [c \in Callers |-> Nil]
    /\ elapsed' = [c \in Callers |-> NotReturned]
    /\ now' = 0
    /\ UNCHANGED <<policy, ctxDeadline, ctxCancellable, executor, nargs, timeout, exitCode,
                   flagParse>>

NextRerun == Next \/ Restart

SpecRerun == Init /\ [][NextRerun]_vars

\* C15: two executions with the same configuration, the same executor and the same
\* instant at which the context becomes done return the same value with the same
\* runsCompleted.
C15_DeterministicOutcome ==
    (prev # NoOutcome /\ \A c \in Callers : Done(c)) => <<ret, runsCompleted>> = prev

(***************************************************************************)
(* The command line program: main of cmd/wut.  It parses the flags, where  *)
(* the flag package exits 0 on -h and 2 on a flag error; it then exits     *)
(* 125 without a COMMAND, otherwise builds the context (interrupt, and the *)
(* -timeout deadline when positive) and the Runner, copies the flags to    *)
(* the policy fields, calls Run and exits by its result.  ProcessTimeout   *)
(* has no flag and stays 0.                                                *)
(***************************************************************************)
InitCLI ==
    /\ ProcessTimeout = 0
    /\ RetryDelay = 0
    /\ MaxRuns = 0
    /\ ContinueOnSuccess = FALSE
    /\ configured = FALSE
    /\ runlock = Unlocked
    /\ runsCompleted = 0
    /\ ctxDeadline = NoDeadline
    /\ ctxCancellable = FALSE
    /\ ctxDone = FALSE
    /\ ctxCause = Nil
    /\ sleep \in 0..MaxSleep
    /\ fails \in {Forever} \cup (0..MaxFails)
    /\ invocations = 0
    /\ pc = [c \in OneCaller |-> "new"]
    /\ timer = [c \in OneCaller |-> 0]
    /\ attemptStart = [c \in OneCaller |-> 0]
    /\ attemptNo = [c \in OneCaller |-> 0]
    /\ attemptEnd = [c \in OneCaller |-> 0]
    /\ err = [c \in OneCaller |-> Nil]
    /\ ret = [c \in OneCaller |-> Nil]
    /\ elapsed = [c \in OneCaller |-> NotReturned]
    /\ now = 0
    /\ nargs \in {0, 1}
    /\ timeout \in 0..MaxDeadline
    /\ exitCode = NotExited
    /\ flagParse \in {ParseOK, ParseHelp, ParseError}
    /\ prev = NoOutcome

\* flag.Parse() on a command line it does not accept: the flag package prints the
\* usage and exits the process, with 0 for -h or -help and with 2 for a flag error.
MainParseExit ==
    /\ nargs # NoMain
    /\ exitCode = NotExited
    /\ flagParse # ParseOK
    /\ exitCode' = IF flagParse = ParseHelp THEN ExitSuccess ELSE ExitFlagError
    /\ UNCHANGED <<policy, context, executor, runlock, runsCompleted, invocations, pc, locals, now,
                   nargs, timeout, flagParse, prev>>

\* if flag.NArg() < 1 { flag.Usage(); os.Exit(125) }
MainUsage ==
    /\ nargs # NoMain
    /\ exitCode = NotExited
    /\ flagParse = ParseOK
    /\ nargs < 1
    /\ exitCode' = ExitUsage
    /\ UNCHANGED <<policy, context, executor, runlock, runsCompleted, invocations, pc, locals, now,
                   nargs, timeout, flagParse, prev>>

\* Variant of main that installs the -timeout deadline also for -timeout 0.
MainNewRunner_alwaysDeadline ==
    /\ nargs # NoMain
    /\ exitCode = NotExited
    /\ flagParse = ParseOK
    /\ nargs >= 1
    /\ ~configured
    /\ ctxCancellable' = TRUE
    /\ ctxDeadline' = now + timeout
    /\ ContinueOnSuccess' \in BOOLEAN
    /\ MaxRuns' \in 0..MaxRunsBound
    /\ RetryDelay' \in 0..MaxDelay
    /\ configured' = TRUE
    /\ UNCHANGED <<ProcessTimeout, ctxDone, ctxCause, executor, harness, runlock, runsCompleted,
                   invocations, pc, locals, now>>

\* signal.NotifyContext, context.WithTimeoutCause when -timeout > 0, NewRunner and
\* the assignment of the flags to the policy fields.
MainNewRunner ==
    /\ nargs # NoMain
    /\ exitCode = NotExited
    /\ flagParse = ParseOK
    /\ nargs >= 1
    /\ ~configured
    /\ ctxCancellable' = TRUE
    /\ ctxDeadline' = IF timeout > 0 THEN now + timeout ELSE NoDeadline
    /\ ContinueOnSuccess' \in BOOLEAN
    /\ MaxRuns' \in 0..MaxRunsBound
    /\ RetryDelay' \in 0..MaxDelay
    /\ configured' = TRUE
    /\ UNCHANGED <<ProcessTimeout, ctxDone, ctxCause, executor, harness, runlock, runsCompleted,
                   invocations, pc, locals, now>>

\* err := runner.Run(); if err != nil { os.Exit(1) }; the return of main exits 0.
MainExit ==
    /\ nargs # NoMain
    /\ exitCode = NotExited
    /\ \E c \in Callers :
        /\ pc[c] = "done"
        /\ exitCode' = IF ret[c] # Nil THEN ExitFailure ELSE ExitSuccess
    /\ UNCHANGED <<policy, context, executor, runlock, runsCompleted, invocations, pc, locals, now,
                   nargs, timeout, flagParse, prev>>

NextCLI ==
    \/ MainParseExit
    \/ MainUsage
    \/ MainNewRunner
    \/ MainExit
    \/ ContextDeadline
    \/ ContextCancel
    \/ Tick
    \/ \E c \in Callers :
        \/ Run(c)
        \/ NextExecDelay(c)
        \/ SelectDone(c)
        \/ SelectTimer(c)
        \/ ExecuteCommand(c)
        \/ ExecutorCanceled(c)
        \/ ExecutorExited(c)

SpecCLI == InitCLI /\ [][NextCLI]_vars

\* C16 as stated: the CLI exits 125 whenever there is no COMMAND, and then neither
\* constructs nor runs a Runner; it exits 1 when Run returned an error and 0 when
\* Run returned nil; with -timeout 0 the context has no deadline.
C16_ExitCodesNoCommand ==
    /\ nargs < 1 => /\ exitCode \in {NotExited, ExitUsage}
                    /\ ~configured /\ ~ctxCancellable /\ invocations = 0
                    /\ \A c \in Callers : pc[c] = "new"
    /\ (\A c \in Callers : Done(c)) =>
           \/ ENABLED MainExit
           \/ \A c \in Callers : exitCode = (IF ret[c] # Nil THEN ExitFailure ELSE ExitSuccess)
    /\ (configured /\ timeout = 0) => ctxDeadline = NoDeadline /\ ctxCause # TimeoutExceeded

\* C16 amended: when flag.Parse accepts the command line, the CLI exits 125 without
\* a COMMAND; when it does not, the CLI exits 0 (help) or 2 (flag error); in all
\* three cases no Runner is constructed or run.  It exits 1 exactly when Run
\* returned an error (Exhausted, interrupt, or the "timeout exceeded" cause of
\* -timeout) and exits 0 after a Run exactly when Run returned nil; with -timeout 0
\* the context has no deadline.
C16_ExitCodes ==
    /\ (flagParse # ParseOK \/ nargs < 1)
           => /\ ~configured /\ ~ctxCancellable /\ invocations = 0
              /\ \A c \in Callers : pc[c] = "new"
    /\ (flagParse = ParseOK /\ nargs < 1) => exitCode \in {NotExited, ExitUsage}
    /\ flagParse = ParseHelp => exitCode \in {NotExited, ExitSuccess}
    /\ flagParse = ParseError => exitCode \in {NotExited, ExitFlagError}
    /\ exitCode = ExitUsage => (flagParse = ParseOK /\ nargs < 1)
    /\ exitCode = ExitFlagError => flagParse = ParseError
    /\ exitCode = ExitFailure =>
           \A c \in Callers : Done(c) /\ ret[c] \in {errMaxRunsCompleted, Canceled, TimeoutExceeded}
    /\ (exitCode = ExitSuccess /\ flagParse = ParseOK) => \A c \in Callers : Done(c) /\ ret[c] = Nil
    /\ (\A c \in Callers : Done(c)) => ENABLED MainExit \/ exitCode \in {ExitFailure, ExitSuccess}
    /\ (configured /\ timeout = 0) => ctxDeadline = NoDeadline /\ ctxCause # TimeoutExceeded
    /\ (configured /\ timeout > 0) => ctxDeadline = timeout

C16_Witness ==
    \E c \in Callers :
        /\ exitCode = ExitFailure /\ ret[c] = TimeoutExceeded /\ timeout = 2
        /\ runsCompleted = 2

\* C17: an attempt in flight has run for at most ProcessTimeout when that is
\* positive; the clock does not pass the instant the overall context is done while
\* an attempt is in flight; and an attempt returns its context's error only when
\* the overall context is done or its own positive ProcessTimeout has elapsed, at
\* the earlier of attempt start + ProcessTimeout and the context's done instant.
C17_AttemptScope ==
    /\ [](\A c \in Callers :
            pc[c] = "running" =>
                /\ ProcessTimeout > 0 => now <= attemptStart[c] + ProcessTimeout
                /\ (ctxDeadline # NoDeadline /\ attemptStart[c] <= ctxDeadline) => now <= ctxDeadline)
    /\ [][\A c \in Callers :
            pc[c] = "running" =>
                /\ ctxDone => now' = now
                /\ (pc'[c] # "running" /\ err'[c] \in {Canceled, DeadlineExceeded}) =>
                       \/ ctxDone
                       \/ ProcessTimeout > 0 /\ now = attemptStart[c] + ProcessTimeout
                /\ (ProcessTimeout = 0 /\ ~ctxDone /\ pc'[c] # "running") =>
                       /\ now >= attemptStart[c] + sleep
                       /\ err'[c] \in {Nil, ExitError}]_vars

C17_Witness ==
    \E c \in Callers :
        /\ pc[c] = "delay" /\ err[c] = DeadlineExceeded /\ ~ctxDone
        /\ ProcessTimeout = 2 /\ sleep = 3 /\ runsCompleted = 2
        /\ attemptEnd[c] = attemptStart[c] + ProcessTimeout

\* The attempt of c has its per-attempt timeout at the instant of the overall
\* context's deadline, and the command would run longer.
TieAttempt(c) ==
    /\ ProcessTimeout > 0 /\ sleep > ProcessTimeout
    /\ ctxDeadline # NoDeadline
    /\ attemptStart[c] + ProcessTimeout = ctxDeadline

\* The loop of c is in the iteration after the attempt of the tie returned.
AfterTie(c) ==
    /\ TieAttempt(c)
    /\ pc[c] \in {"delay", "select"}
    /\ runsCompleted >= 1 /\ attemptEnd[c] = ctxDeadline

\* C18: when the per-attempt timeout and the overall deadline expire at the same
\* instant, the attempt returns as a failure counted once, and the next iteration
\* starts no attempt and returns the cause of the overall context.
C18_TieBreak ==
    [][\A c \in Callers :
        /\ (TieAttempt(c) /\ pc[c] = "running" /\ now = ctxDeadline /\ pc'[c] # "running") =>
               /\ err'[c] # Nil /\ pc'[c] = "delay"
               /\ runsCompleted < MaxAttempts => runsCompleted' = runsCompleted + 1
        /\ AfterTie(c) =>
               /\ pc'[c] \in {"delay", "select", "done"}
               /\ pc'[c] = "done" => (ctxDone /\ ret'[c] = ctxCause)]_vars

\* C19 as stated: a Runner run without assigning a policy field has RetryDelay 1,
\* ProcessTimeout 0, MaxRuns 0 and ContinueOnSuccess false, and its second attempt
\* starts 1 time unit after the first one failed.
C19_DefaultRetryDelayOne ==
    \A c \in Callers :
        (~configured /\ pc[c] # "new") =>
            /\ RetryDelay = 1 /\ ProcessTimeout = 0 /\ MaxRuns = 0 /\ ~ContinueOnSuccess
            /\ (pc[c] = "running" /\ attemptNo[c] = 2) => attemptStart[c] = attemptEnd[c] + 1

\* C19 amended: a Runner run without assigning a policy field has the zero values of
\* NewRunner, RetryDelay 0 included, and its second attempt starts at the instant the
\* first one returned.
C19_ZeroValueDefaults ==
    \A c \in Callers :
        (~configured /\ pc[c] # "new") =>
            /\ RetryDelay = 0 /\ ProcessTimeout = 0 /\ MaxRuns = 0 /\ ~ContinueOnSuccess
            /\ (pc[c] = "running" /\ attemptNo[c] = 2) => attemptStart[c] = attemptEnd[c]

C19_Witness ==
    \E c \in Callers :
        /\ ~configured /\ pc[c] = "running" /\ attemptNo[c] = 2 /\ err[c] = ExitError
        /\ sleep = 1 /\ attemptEnd[c] = 1 /\ attemptStart[c] = 1

\* C20: for a single caller the value Run returned agrees with the final state:
\* errMaxRunsCompleted only with MaxRuns > 0 completed runs; nil only with
\* ContinueOnSuccess false, after at least one run, the last of which succeeded
\* while every earlier one failed; any other value is the cause of the overall
\* context, which is done.
C20_OutcomeMatchesState ==
    /\ [](\A c \in Callers :
            /\ Done(c) =>
                /\ ret[c] = errMaxRunsCompleted => (MaxRuns > 0 /\ runsCompleted = MaxRuns)
                /\ ret[c] = Nil =>
                       /\ ~ContinueOnSuccess /\ runsCompleted >= 1
                       /\ err[c] = Nil /\ attemptEnd[c] = elapsed[c]
                /\ ret[c] \notin {errMaxRunsCompleted, Nil} => (ctxDone /\ ret[c] = ctxCause)
            /\ (~Done(c) /\ ~ContinueOnSuccess /\ runsCompleted >= 1 /\ pc[c] # "running")
                   => err[c] # Nil)
    /\ [][\A c \in Callers :
            (pc[c] = "running" /\ pc'[c] # "running" /\ ~ContinueOnSuccess) =>
                (err'[c] = Nil <=> (Done(c)' /\ ret'[c] = Nil))]_vars

C20_Witness ==
    \E c \in Callers :
        /\ Done(c) /\ ret[c] = Nil /\ runsCompleted = 3 /\ fails = 2 /\ MaxRuns = 3
        /\ RetryDelay = 1 /\ ~ctxDone

\* MaxRuns attempts, respectively the attempts up to the first successful one, with
\* the waits after them end within the clock's horizon MaxTime.
RunsWithinHorizon == MaxRuns * (sleep + RetryDelay) <= MaxTime
SuccessWithinHorizon == (fails + 1) * (sleep + RetryDelay) <= MaxTime

\* The executor lets attempt fails + 1 succeed, no attempt is cut short by the
\* per-attempt timeout, and the context is never done.
SomeAttemptSucceeds ==
    /\ fails # Forever
    /\ ProcessTimeout = 0 \/ sleep < ProcessTimeout
    /\ NeverDone

\* Run has been called with MaxRuns > 0.
StartedWithMaxRuns ==
    /\ \E c \in Callers : pc[c] # "new"
    /\ MaxRuns > 0
    /\ RunsWithinHorizon

\* Run has been called with ContinueOnSuccess false and a successful attempt ahead.
StartedWithSuccessAhead ==
    /\ \E c \in Callers : pc[c] # "new"
    /\ ~ContinueOnSuccess
    /\ SomeAttemptSucceeds
    /\ SuccessWithinHorizon

\* C21: Run returns whenever a stop condition is reachable: with MaxRuns > 0 (the
\* executor always returns) it eventually returns, whatever ContinueOnSuccess and
\* the context are; with ContinueOnSuccess false and an attempt that succeeds it
\* eventually returns, and returns at the step that attempt returns.  With
\* MaxRuns = 0, a context that is never done and an executor that always fails it
\* never returns.
C21_TerminatesWhenStoppable ==
    /\ StartedWithMaxRuns ~> (\A c \in Callers : Done(c))
    /\ StartedWithSuccessAhead ~> (\A c \in Callers : Done(c))
    /\ [][\A c \in Callers :
            (pc[c] = "running" /\ pc'[c] # "running" /\ err'[c] = Nil /\ ~ContinueOnSuccess)
                => Done(c)']_vars
    /\ [](\A c \in Callers : (MaxRuns = 0 /\ NeverDone /\ AlwaysFails) => ~Done(c))

C21_Witness ==
    \E c \in Callers :
        /\ Done(c) /\ ret[c] = errMaxRunsCompleted /\ MaxRuns = 3 /\ runsCompleted = 3
        /\ ContinueOnSuccess /\ NeverDone /\ fails = 0 /\ sleep = 1 /\ RetryDelay = 1
        /\ elapsed[c] = 6

\* C22: with two concurrent callers of Run on one Runner and MaxRuns = N > 0, the
\* executor is invoked at most N times and runsCompleted never exceeds N.
C22_MaxRunsBoundConcurrent ==
    MaxRuns > 0 => (invocations <= MaxRuns /\ runsCompleted <= MaxRuns)

====
